---- MODULE Spec2Model ----
(***************************************************************************)
(* Model of src/index.js: the S3-triggered image resize handler.          *)
(*                                                                         *)
(* Strings are sequences of tokens.  A token stands for a fixed non-empty  *)
(* piece of text ("/", ".", "thumb", "jpg", ...); no text has two          *)
(* tokenisations, so two token sequences are equal exactly when the        *)
(* strings they stand for are equal.  Numbers that JavaScript computes     *)
(* with "/" are exact rationals <<num, den>> in lowest terms, den > 0.     *)
(***************************************************************************)
EXTENDS Integers, Sequences, FiniteSets, TLC

(***************************************************************************)
(* Bounds of the model.                                                    *)
(***************************************************************************)
MaxFaults == 2   \* failing external calls per invocation
MaxDim    == 7   \* decoded width and height range over 1..MaxDim
MaxSegs   == 3   \* "/"-separated pieces of the raw keys that are enumerated
MaxRuns   == 2   \* invocations on the same source object

(***************************************************************************)
(* Program constants.                                                      *)
(***************************************************************************)
AWS_ACL == "public-read"

IMAGE_SIZES ==
  << [name |-> "large",         width |-> 640, height |-> 640, crop |-> FALSE],
     [name |-> "large_square",  width |-> 640, height |-> 640, crop |-> TRUE],
     [name |-> "medium",        width |-> 320, height |-> 320, crop |-> FALSE],
     [name |-> "medium_square", width |-> 320, height |-> 320, crop |-> TRUE],
     [name |-> "thumb",         width |-> 120, height |-> 120, crop |-> FALSE],
     [name |-> "thumb_square",  width |-> 120, height |-> 120, crop |-> TRUE] >>

Jobs == 1..Len(IMAGE_SIZES)

(***************************************************************************)
(* Exact rational arithmetic.                                              *)
(***************************************************************************)
Abs(n) == IF n < 0 THEN -n ELSE n

RECURSIVE Gcd(_, _)
Gcd(a, b) == IF b = 0 THEN a ELSE Gcd(b, a % b)

Rat(n, d) ==
  LET g == Gcd(Abs(n), Abs(d))
      s == IF d < 0 THEN -1 ELSE 1
  IN  IF n = 0 THEN <<0, 1>> ELSE <<(s * n) \div g, (s * d) \div g>>

RatInt(n) == <<n, 1>>
RatMul(a, b) == Rat(a[1] * b[1], a[2] * b[2])
RatLE(a, b) == a[1] * b[2] <= b[1] * a[2]
RatMin(a, b) == IF RatLE(a, b) THEN a ELSE b

(***************************************************************************)
(* String functions of JavaScript, on token sequences.                     *)
(***************************************************************************)
RECURSIVE Split(_, _)
Split(s, sep) ==
  IF \A i \in 1..Len(s) : s[i] # sep
  THEN << s >>
  ELSE LET i == CHOOSE k \in 1..Len(s) :
                  s[k] = sep /\ \A m \in 1..(k - 1) : s[m] # sep
       IN  << SubSeq(s, 1, i - 1) >> \o Split(SubSeq(s, i + 1, Len(s)), sep)

Reverse(s) == [i \in 1..Len(s) |-> s[Len(s) + 1 - i]]

\* srcKey.replace(/\+/g, " ")
PlusToSpace(s) == [i \in 1..Len(s) |-> IF s[i] = "+" THEN " " ELSE s[i]]

\* decodeURIComponent on the escapes the raw keys use (the store's
\* notifications carry well-formed escapes only)
DecodeURIComponent(s) ==
  [i \in 1..Len(s) |->
     CASE s[i] = "%2F" -> "/"
       [] s[i] = "%20" -> " "
       [] s[i] = "%2B" -> "+"
       [] OTHER        -> s[i]]

\* string concatenation with an array element: a missing element prints
\* as the text "undefined"
ElemText(arr, i) == IF i \in 1..Len(arr) THEN arr[i] ELSE << "undefined" >>

SrcBucket(name) == Split(name, "/")[1]

SrcKey(rawKey) == DecodeURIComponent(PlusToSpace(rawKey))

\* DstKey taking the first two pieces of the key instead of the last two
DstKeyFromFront(srcKey, name) ==
  LET r == Split(srcKey, "/")
  IN  << name >> \o << "/" >> \o ElemText(r, 1) \o << "/" >> \o ElemText(r, 2)

\* DstKey with the size name read from a variable shared by all iteratees,
\* which holds the last size by the time any callback runs
DstKeyShared(srcKey, name) ==
  LET r == Reverse(Split(srcKey, "/"))
  IN  << IMAGE_SIZES[Len(IMAGE_SIZES)].name >> \o << "/" >> \o ElemText(r, 2)
        \o << "/" >> \o ElemText(r, 1)

\* DstKey without the size name in front
DstKeyWithoutName(srcKey, name) ==
  LET r == Reverse(Split(srcKey, "/"))
  IN  ElemText(r, 2) \o << "/" >> \o ElemText(r, 1)

DstKey(srcKey, name) ==
  LET r == Reverse(Split(srcKey, "/"))
  IN  << name >> \o << "/" >> \o ElemText(r, 2) \o << "/" >> \o ElemText(r, 1)

\* SameKeys comparing against the key with a leading "/"
SameKeysLeadingSlash(dstKey, srcKey) == dstKey = << "/" >> \o srcKey

SameKeys(dstKey, srcKey) == dstKey = srcKey

\* srcKey.match(/\.([^.]*)$/): TRUE when the key contains a "."
TypeMatch(srcKey) == \E i \in 1..Len(srcKey) : srcKey[i] = "."

\* typeMatch[1]: the text after the last "."
ImageType(srcKey) ==
  LET i == CHOOSE k \in 1..Len(srcKey) :
             srcKey[k] = "." /\ \A m \in (k + 1)..Len(srcKey) : srcKey[m] # "."
  IN  SubSeq(srcKey, i + 1, Len(srcKey))

\* Resizeable that also lets gif through
ResizeableWithGif(imageType) ==
  ~(imageType # << "jpg" >> /\ imageType # << "jpeg" >> /\ imageType # << "png" >>
      /\ imageType # << "gif" >>)

Resizeable(imageType) ==
  ~(imageType # << "jpg" >> /\ imageType # << "jpeg" >> /\ imageType # << "png" >>)

(***************************************************************************)
(* Geometry of transform.                                                  *)
(***************************************************************************)
\* CropRect with the offsets not halved
CropRectNotHalved(size, imageSize) ==
  IF imageSize.crop
  THEN IF size.width > size.height
       THEN [cropHeight |-> size.height, cropWidth |-> size.height,
             xCrop |-> RatInt(size.width - size.height), yCrop |-> RatInt(0)]
       ELSE [cropHeight |-> size.width, cropWidth |-> size.width,
             xCrop |-> RatInt(0), yCrop |-> RatInt(size.height - size.width)]
  ELSE [cropHeight |-> size.height, cropWidth |-> size.width,
        xCrop |-> RatInt(0), yCrop |-> RatInt(0)]

CropRect(size, imageSize) ==
  IF imageSize.crop
  THEN IF size.width > size.height
       THEN [cropHeight |-> size.height, cropWidth |-> size.height,
             xCrop |-> Rat(size.width - size.height, 2), yCrop |-> RatInt(0)]
       ELSE [cropHeight |-> size.width, cropWidth |-> size.width,
             xCrop |-> RatInt(0), yCrop |-> Rat(size.height - size.width, 2)]
  ELSE [cropHeight |-> size.height, cropWidth |-> size.width,
        xCrop |-> RatInt(0), yCrop |-> RatInt(0)]

ScalingFactor(size, imageSize) ==
  RatMin(Rat(imageSize.width, size.width), Rat(imageSize.height, size.height))

Transform(size, imageSize) ==
  LET c  == CropRect(size, imageSize)
      sf == ScalingFactor(size, imageSize)
  IN  [cropWidth |-> c.cropWidth, cropHeight |-> c.cropHeight,
       xCrop |-> c.xCrop, yCrop |-> c.yCrop,
       scalingFactor |-> sf,
       width  |-> RatMul(sf, RatInt(size.width)),
       height |-> RatMul(sf, RatInt(size.height))]

(***************************************************************************)
(* State.                                                                  *)
(***************************************************************************)
VARIABLES
  event,     \* event.Records[0].s3: [bucket, key], the raw notification
  object,    \* the source object in the store: [width, height, ContentType]
  pc,        \* per size job: where its callback chain stands
  local,     \* per size job: the variables its closure holds
  each,      \* bookkeeping of async.each: [completed, called, err]
  reported,  \* calls made to the handler's own callback, in order
  gets,      \* s3.getObject requests issued
  puts,      \* s3.putObject requests issued
  outputs,   \* per invocation: the objects its successful putObjects left
  run,       \* number of the current invocation
  faults     \* external calls that have failed in this invocation

vars == << event, object, pc, local, each, reported, gets, puts, outputs,
           run, faults >>

NoErr == "null"

NoPlan == [cropWidth |-> 0, cropHeight |-> 0, xCrop |-> RatInt(0),
           yCrop |-> RatInt(0), scalingFactor |-> RatInt(0),
           width |-> RatInt(0), height |-> RatInt(0)]

NoLocal == [srcBucket |-> << >>, srcKey |-> << >>, dstBucket |-> << >>,
            dstKey |-> << >>, imageType |-> << >>, ContentType |-> "none",
            plan |-> NoPlan, err |-> NoErr, data |-> "none"]

NoEach == [completed |-> 0, called |-> FALSE, err |-> [job |-> 0, msg |-> NoErr]]

InFlight == {"Fetching", "Sizing", "Converting", "Storing"}

Crashed == \E j \in Jobs : pc[j] = "Thrown"

(***************************************************************************)
(* async.each: the final callback and the callback given to each iteratee. *)
(***************************************************************************)
\* EachFinal that stays silent in the success branch as well
EachFinalSilent(err, rep) == rep

\* function(err) of lines 192-201, applied to the calls made so far
EachFinal(err, rep) ==
  IF err # NoErr
  THEN rep
  ELSE Append(rep, [err |-> NoErr,
                    data |-> "All files have been processed successfully"])

\* EachDone that holds one callback early
EachDoneEarly(completed) == completed = Len(IMAGE_SIZES) - 1

\* the final callback runs once: on the first error, or when every
\* iteratee has called back without one
EachDone(completed) == completed = Len(IMAGE_SIZES)

\* EachCallback that counts every callback as a completion, error or not
EachCallbackIgnoresErr(st, j, err) ==
  LET c == st.completed + 1
  IN  IF EachDone(c) /\ ~st.called
      THEN [st EXCEPT !.completed = c, !.called = TRUE,
                      !.reported = EachFinal(NoErr, st.reported)]
      ELSE [st EXCEPT !.completed = c]

\* EachCallback without the guard that makes the final callback run once
EachCallbackEveryError(st, j, err) ==
  IF err # NoErr
  THEN [st EXCEPT !.called = TRUE, !.err = [job |-> j, msg |-> err],
                  !.reported = EachFinal(err, st.reported)]
  ELSE LET c == st.completed + 1
       IN  IF EachDone(c) /\ ~st.called
           THEN [st EXCEPT !.completed = c, !.called = TRUE,
                           !.reported = EachFinal(NoErr, st.reported)]
           ELSE [st EXCEPT !.completed = c]

EachCallback(st, j, err) ==
  IF err # NoErr
  THEN IF st.called
       THEN st
       ELSE [st EXCEPT !.called = TRUE, !.err = [job |-> j, msg |-> err],
                       !.reported = EachFinal(err, st.reported)]
  ELSE LET c == st.completed + 1
       IN  IF EachDone(c) /\ ~st.called
           THEN [st EXCEPT !.completed = c, !.called = TRUE,
                           !.reported = EachFinal(NoErr, st.reported)]
           ELSE [st EXCEPT !.completed = c]

\* AfterCallback that drops the jobs still under way when one fails
AfterCallbackCancels(pcs, j, to) ==
  [k \in DOMAIN pcs |->
     IF k = j THEN to
     ELSE IF to = "Failed" /\ pcs[k] \in InFlight THEN "Abandoned"
     ELSE pcs[k]]

\* AfterCallback that starts a failed job over
AfterCallbackRetries(pcs, j, to) ==
  [pcs EXCEPT ![j] = IF to = "Failed" THEN "Fetching" ELSE to]

\* the jobs after job j has called back: the others are left as they are
AfterCallback(pcs, j, to) == [pcs EXCEPT ![j] = to]

(***************************************************************************)
(* The iteratee up to its first asynchronous call (lines 58-104).          *)
(***************************************************************************)
JobLocal(ev, j) ==
  LET srcBucket == SrcBucket(ev.bucket)
      srcKey    == SrcKey(ev.key)
  IN  [NoLocal EXCEPT !.srcBucket = srcBucket, !.srcKey = srcKey,
                      !.dstBucket = srcBucket,
                      !.dstKey = DstKey(srcKey, IMAGE_SIZES[j].name)]

\* st = [pc, local, gets, each]; each carries the reported calls
StartJob(ev, j, st) ==
  LET l == JobLocal(ev, j)
  IN  IF SameKeys(l.dstKey, l.srcKey)
      THEN LET e == "Source and destination buckets are the same."
           IN  [st EXCEPT !.pc = AfterCallback(@, j, "Failed"),
                          !.local[j] = [l EXCEPT !.err = e],
                          !.each = EachCallback(@, j, e)]
      ELSE IF ~TypeMatch(l.srcKey)
      THEN LET e == "Could not determine the image type."
           IN  [st EXCEPT !.pc = AfterCallback(@, j, "Failed"),
                          !.local[j] = [l EXCEPT !.err = e],
                          !.each = EachCallback(@, j, e)]
      ELSE IF ~Resizeable(ImageType(l.srcKey))
      THEN [st EXCEPT !.pc = AfterCallback(@, j, "Succeeded"),
                      !.local[j] = [l EXCEPT !.imageType = ImageType(l.srcKey),
                                             !.data = "Nothing to do here."],
                      !.each = EachCallback(@, j, NoErr)]
      ELSE [st EXCEPT !.pc[j] = "Fetching",
                      !.local[j] = [l EXCEPT !.imageType = ImageType(l.srcKey)],
                      !.gets = @ \cup {[job |-> j, Bucket |-> l.srcBucket,
                                        Key |-> l.srcKey]}]

RECURSIVE EachLoop(_, _, _)
EachLoop(ev, j, st) ==
  IF j > Len(IMAGE_SIZES) THEN st ELSE EachLoop(ev, j + 1, StartJob(ev, j, st))

WithReported(e, rep) ==
  [completed |-> e.completed, called |-> e.called, err |-> e.err,
   reported |-> rep]

WithoutReported(e) ==
  [completed |-> e.completed, called |-> e.called, err |-> e.err]

(***************************************************************************)
(* Inputs: the notification and the object it names.                       *)
(***************************************************************************)
Input(bucket, key, w, h, ct) ==
  [bucket |-> bucket, key |-> key, width |-> w, height |-> h, ContentType |-> ct]

\* one invocation, with failing external calls
SpecInputs ==
  { Input(<< "bucket" >>, << "original", "/", "abc", "/", "x", ".", "jpg" >>,
          3, 2, "image/jpeg"),
    Input(<< "bucket" >>, << "thumb", "/", "abc", "/", "x", ".", "png" >>,
          2, 3, "image/png"),
    Input(<< "bucket" >>, << "abc", "/", "x", ".", "gif" >>, 1, 1, "image/gif"),
    Input(<< "bucket" >>, << "abc", "/", "x" >>, 1, 1, "binary/octet-stream"),
    Input(<< "bucket" >>, << "thumb", "/", "abc", "/", "x", ".", "gif" >>,
          1, 1, "image/gif"),
    Input(<< "bucket", "/", "sub" >>, << "a", "+", "b", "%2F", "x", ".", "JPG" >>,
          1, 1, "image/jpeg") }

InitOn(inputs) ==
  /\ \E i \in inputs :
       /\ event = [bucket |-> i.bucket, key |-> i.key]
       /\ object = [width |-> i.width, height |-> i.height,
                    ContentType |-> i.ContentType]
  /\ pc = [j \in Jobs |-> "Pending"]
  /\ local = [j \in Jobs |-> NoLocal]
  /\ each = NoEach
  /\ reported = << >>
  /\ gets = {}
  /\ puts = {}
  /\ outputs = [r \in 1..MaxRuns |-> {}]
  /\ run = 1
  /\ faults = 0

Init == InitOn(SpecInputs)

(***************************************************************************)
(* exports.handler: async.each starts every iteratee before it returns.    *)
(***************************************************************************)
handler ==
  /\ \A j \in Jobs : pc[j] = "Pending"
  /\ LET st == EachLoop(event, 1,
                        [pc |-> pc, local |-> local, gets |-> gets,
                         each |-> WithReported(each, reported)])
     IN  /\ pc' = st.pc
         /\ local' = st.local
         /\ gets' = st.gets
         /\ each' = WithoutReported(st.each)
         /\ reported' = st.each.reported
  /\ UNCHANGED << event, object, puts, outputs, run, faults >>

(***************************************************************************)
(* The callbacks of the waterfall of one job.                              *)
(***************************************************************************)
\* the waterfall's final callback with an error (lines 174-181)
Fail(j, err) ==
  LET st == EachCallback(WithReported(each, reported), j, err)
  IN  /\ pc' = AfterCallback(pc, j, "Failed")
      /\ local' = [local EXCEPT ![j].err = err]
      /\ each' = WithoutReported(st)
      /\ reported' = st.reported
      /\ faults' = faults + 1
      /\ UNCHANGED << event, object, gets, puts, outputs, run >>

\* s3.getObject calls next(null, response): transform starts gm(...).size
GetObjectOk(j) ==
  /\ ~Crashed
  /\ pc[j] = "Fetching"
  /\ pc' = [pc EXCEPT ![j] = "Sizing"]
  /\ local' = [local EXCEPT ![j].ContentType = object.ContentType]
  /\ UNCHANGED << event, object, each, reported, gets, puts, outputs, run,
                  faults >>

\* s3.getObject calls next(err)
GetObjectErr(j) ==
  /\ ~Crashed
  /\ pc[j] = "Fetching"
  /\ faults < MaxFaults
  /\ Fail(j, "FetchFailure")

\* the callback of size with the decoded size (lines 108-160)
SizeOk(j) ==
  /\ ~Crashed
  /\ pc[j] = "Sizing"
  /\ pc' = [pc EXCEPT ![j] = "Converting"]
  /\ local' = [local EXCEPT ![j].plan =
                 Transform([width |-> object.width, height |-> object.height],
                           IMAGE_SIZES[j])]
  /\ UNCHANGED << event, object, each, reported, gets, puts, outputs, run,
                  faults >>

\* the callback of size with an error: err is not looked at and size is
\* undefined, so size.height throws and nothing catches it
SizeErr(j) ==
  /\ ~Crashed
  /\ pc[j] = "Sizing"
  /\ faults < MaxFaults
  /\ pc' = [pc EXCEPT ![j] = "Thrown"]
  /\ faults' = faults + 1
  /\ UNCHANGED << event, object, local, each, reported, gets, puts, outputs,
                  run >>

\* the buffer that crop(...).resize(...).toBuffer(imageType) produces
Buffer(l) ==
  [format |-> l.imageType,
   crop   |-> << l.plan.cropWidth, l.plan.cropHeight, l.plan.xCrop, l.plan.yCrop >>,
   resize |-> << l.plan.width, l.plan.height >>]

\* PutRequest with a fixed content type instead of the one in the response
\* of getObject
PutRequestFixedType(j, l) ==
  [job |-> j, Bucket |-> l.dstBucket, Key |-> l.dstKey, Body |-> Buffer(l),
   ContentType |-> "image/jpeg", ACL |-> AWS_ACL]

\* the parameters of s3.putObject in upload (lines 165-171)
PutRequest(j, l) ==
  [job |-> j, Bucket |-> l.dstBucket, Key |-> l.dstKey, Body |-> Buffer(l),
   ContentType |-> l.ContentType, ACL |-> AWS_ACL]

\* the store after a successful putObject: the object replaces whatever
\* was at its bucket and key
Stored(objs, req) ==
  { o \in objs : ~(o.Bucket = req.Bucket /\ o.Key = req.Key) }
    \cup { [Bucket |-> req.Bucket, Key |-> req.Key, Body |-> req.Body,
            ContentType |-> req.ContentType, ACL |-> req.ACL] }

\* toBuffer calls back with the buffer: upload issues s3.putObject
ToBufferOk(j) ==
  /\ ~Crashed
  /\ pc[j] = "Converting"
  /\ pc' = [pc EXCEPT ![j] = "Storing"]
  /\ puts' = puts \cup { PutRequest(j, local[j]) }
  /\ UNCHANGED << event, object, local, each, reported, gets, outputs, run,
                  faults >>

\* toBuffer calls back with an error
ToBufferErr(j) ==
  /\ ~Crashed
  /\ pc[j] = "Converting"
  /\ faults < MaxFaults
  /\ Fail(j, "EncodeError")

\* s3.putObject calls back without an error (lines 182-188)
PutObjectOk(j) ==
  /\ ~Crashed
  /\ pc[j] = "Storing"
  /\ LET st == EachCallback(WithReported(each, reported), j, NoErr)
     IN  /\ pc' = AfterCallback(pc, j, "Succeeded")
         /\ local' = [local EXCEPT ![j].data = "Success"]
         /\ each' = WithoutReported(st)
         /\ reported' = st.reported
  /\ outputs' = [outputs EXCEPT ![run] = Stored(@, PutRequest(j, local[j]))]
  /\ UNCHANGED << event, object, gets, puts, run, faults >>

\* s3.putObject calls back with an error
PutObjectErr(j) ==
  /\ ~Crashed
  /\ pc[j] = "Storing"
  /\ faults < MaxFaults
  /\ Fail(j, "StoreFailure")

Next ==
  \/ handler
  \/ \E j \in Jobs : GetObjectOk(j)
  \/ \E j \in Jobs : GetObjectErr(j)
  \/ \E j \in Jobs : SizeOk(j)
  \/ \E j \in Jobs : SizeErr(j)
  \/ \E j \in Jobs : ToBufferOk(j)
  \/ \E j \in Jobs : ToBufferErr(j)
  \/ \E j \in Jobs : PutObjectOk(j)
  \/ \E j \in Jobs : PutObjectErr(j)

Spec == Init /\ [][Next]_vars

(***************************************************************************)
(* The invoking environment delivers the same event again once the         *)
(* previous invocation has no call outstanding.                            *)
(***************************************************************************)
Quiescent == \A j \in Jobs : pc[j] \notin InFlight \cup {"Pending"}

Reinvoke ==
  /\ Quiescent
  /\ ~Crashed
  /\ run < MaxRuns
  /\ run' = run + 1
  /\ pc' = [j \in Jobs |-> "Pending"]
  /\ local' = [j \in Jobs |-> NoLocal]
  /\ each' = NoEach
  /\ reported' = << >>
  /\ gets' = {}
  /\ puts' = {}
  /\ faults' = 0
  /\ UNCHANGED << event, object, outputs >>

(***************************************************************************)
(* Key handling on its own: raw keys of up to MaxSegs pieces joined by     *)
(* "/", and the synchronous part of the handler applied to them.           *)
(***************************************************************************)
SegPool ==
  { << >>, << "original" >>, << "thumb" >>, << "abc" >>, << "x" >>,
    << "x", ".", "jpg" >>, << "x", ".", "gif" >>, << "x", ".", "JPG" >>,
    << "a", "+", "b", ".", "png" >>, << "a", "%2F", "x", ".", "jpeg" >>,
    << "a", "%2B", "b", ".", "x", "." >> }

RECURSIVE Join(_)
Join(segs) ==
  IF Len(segs) = 1 THEN segs[1]
  ELSE segs[1] \o << "/" >> \o Join(Tail(segs))

RawKeys ==
  { Join(segs) : segs \in UNION { [1..n -> SegPool] : n \in 1..MaxSegs } }

KeyInputs ==
  { Input(b, k, 1, 1, "image/jpeg") :
      b \in { << "bucket" >>, << "bucket", "/", "sub" >> }, k \in RawKeys }

InitKeys == InitOn(KeyInputs)

NextKeys == handler

SpecKeys == InitKeys /\ [][NextKeys]_vars

(***************************************************************************)
(* Geometry on its own: every decoded size of the range, each job taken    *)
(* as far as the callback of size, no external call failing.               *)
(***************************************************************************)
Dims == (1..MaxDim) \cup { 213 * d : d \in 1..MaxDim }

GeomInputs ==
  { Input(<< "bucket" >>, << "original", "/", "abc", "/", "x", ".", "jpg" >>,
          w, h, "image/jpeg") : w \in Dims, h \in Dims }

InitGeom == InitOn(GeomInputs)

NextGeom ==
  \/ handler
  \/ \E j \in Jobs : GetObjectOk(j)
  \/ \E j \in Jobs : SizeOk(j)

SpecGeom == InitGeom /\ [][NextGeom]_vars

(***************************************************************************)
(* Repeated invocations on the same source, no external call failing.      *)
(***************************************************************************)
TwiceInputs ==
  { Input(<< "bucket" >>, << "original", "/", "abc", "/", "x", ".", "jpg" >>,
          3, 2, "image/jpeg"),
    Input(<< "bucket" >>, << "thumb", "/", "abc", "/", "x", ".", "png" >>,
          2, 3, "image/png") }

InitTwice == InitOn(TwiceInputs)

NextTwice ==
  \/ handler
  \/ \E j \in Jobs : GetObjectOk(j)
  \/ \E j \in Jobs : SizeOk(j)
  \/ \E j \in Jobs : ToBufferOk(j)
  \/ \E j \in Jobs : PutObjectOk(j)
  \/ Reinvoke

SpecTwice == InitTwice /\ [][NextTwice]_vars

(***************************************************************************)
(* Properties.                                                             *)
(***************************************************************************)
Started == \A j \in Jobs : pc[j] # "Pending"

SuccessCall ==
  [err |-> NoErr, data |-> "All files have been processed successfully"]

IdenticalKeysMsg == "Source and destination buckets are the same."

SkipData == "Nothing to do here."

Issued(reqs, j) == \E r \in reqs : r.job = j

DstKeyIsSrcKey(j) == local[j].dstKey = local[j].srcKey

\* C1: once a size job has failed, the handler's callback has been called
\* with an error carrying the message of the first failure.
C1_FailureReported ==
  (\E j \in Jobs : pc[j] = "Failed")
    => /\ Len(reported) = 1
       /\ reported[1].err # NoErr
       /\ reported[1].err = each.err.msg

\* C2: when every size job has succeeded (skips included), the handler's
\* callback has been called exactly once, with no error and the success
\* message.
C2_AllSucceededReportsSuccess ==
  (\A j \in Jobs : pc[j] = "Succeeded") => reported = << SuccessCall >>

C2_Witness ==
  /\ \A j \in Jobs : pc[j] = "Succeeded" /\ local[j].data = "Success"
  /\ reported = << SuccessCall >>

C4_SelfOverwriteGuard ==
  Started =>
    /\ \A j \in Jobs :
         DstKeyIsSrcKey(j) =>
           /\ pc[j] = "Failed"
           /\ local[j].err = IdenticalKeysMsg
           /\ ~Issued(gets, j)
           /\ ~Issued(puts, j)
    /\ \A p \in puts :
         ~(p.Bucket = local[p.job].srcBucket /\ p.Key = local[p.job].srcKey)

C4_Witness ==
  /\ Quiescent
  /\ DstKeyIsSrcKey(5)
  /\ pc[5] = "Failed"
  /\ \A k \in Jobs \ {5} : pc[k] = "Succeeded" /\ local[k].data = "Success"

HasExtension(k) == \E i \in 1..Len(k) : k[i] = "."

\* the text after the last "." of k is none of jpg, jpeg, png
UnsupportedType(k) ==
  /\ HasExtension(k)
  /\ \A i \in 1..Len(k) :
       (k[i] = "." /\ \A m \in (i + 1)..Len(k) : k[m] # ".")
         => SubSeq(k, i + 1, Len(k)) \notin { << "jpg" >>, << "jpeg" >>, << "png" >> }

C5_NoWork == gets = {} /\ puts = {} /\ \A r \in 1..MaxRuns : outputs[r] = {}

\* C5 as stated: for a source key whose extension is none of jpg, jpeg,
\* png, every size job has succeeded with the skip annotation and nothing
\* was fetched or stored.
C5_TypeFilterFirst ==
  \A j \in Jobs :
    (Started /\ UnsupportedType(local[j].srcKey))
      => pc[j] = "Succeeded" /\ local[j].data = SkipData /\ C5_NoWork

\* C5 as amended: for a source key whose extension is none of jpg, jpeg,
\* png, every size job whose destination key differs from the source key
\* has succeeded with the skip annotation, the job whose destination key
\* equals the source key has failed with the identical-keys message, and
\* nothing was fetched or stored.
C5_TypeFilterAfterKeyCheck ==
  \A j \in Jobs :
    (Started /\ UnsupportedType(local[j].srcKey))
      => /\ local[j].dstKey # local[j].srcKey
              => pc[j] = "Succeeded" /\ local[j].data = SkipData
                   /\ local[j].err = NoErr
         /\ local[j].dstKey = local[j].srcKey
              => pc[j] = "Failed" /\ local[j].err = IdenticalKeysMsg
         /\ C5_NoWork

C5_Witness ==
  /\ Started
  /\ local[1].srcKey = << "abc", "/", "x", ".", "gif" >>
  /\ \A j \in Jobs : pc[j] = "Succeeded" /\ local[j].data = SkipData
  /\ C5_NoWork

NoSlash(t) == \A i \in 1..Len(t) : t[i] # "/"

C7_InvalidKeyShape ==
  \A j \in Jobs :
    (Started /\ NoSlash(local[j].srcKey))
      => pc[j] = "Failed" /\ gets = {} /\ puts = {}

PlanOf(j) == local[j].plan

Planned(j) == pc[j] \in {"Converting", "Storing", "Succeeded"} /\ local[j].data # SkipData

\* C8: the scaling factor of every computed plan is the smaller of
\* maxWidth / cropWidth and maxHeight / cropHeight, the requested output
\* fits the box with one side equal to its maximum, and a square crop into
\* a square box asks for exactly the box.
C8_ScaleFromCropRect ==
  \A j \in Jobs :
    Planned(j) =>
      LET p  == PlanOf(j)
          mw == RatInt(IMAGE_SIZES[j].width)
          mh == RatInt(IMAGE_SIZES[j].height)
      IN  /\ p.scalingFactor =
               RatMin(Rat(IMAGE_SIZES[j].width, p.cropWidth),
                      Rat(IMAGE_SIZES[j].height, p.cropHeight))
          /\ RatLE(p.width, mw) /\ RatLE(p.height, mh)
          /\ p.width = mw \/ p.height = mh
          /\ (IMAGE_SIZES[j].crop /\ mw = mh) => (p.width = mw /\ p.height = mh)

\* C9: the crop rectangle of every computed plan is the whole source
\* without crop, and with crop the centred square of side min(w, h), offset
\* (w - h) / 2 along x when w > h and (h - w) / 2 along y otherwise; it
\* lies inside the source.
C9_CropRectangle ==
  \A j \in Jobs :
    Planned(j) =>
      LET p == PlanOf(j)
          w == object.width
          h == object.height
          side == IF w < h THEN w ELSE h
      IN  /\ ~IMAGE_SIZES[j].crop =>
               /\ p.xCrop = <<0, 1>> /\ p.yCrop = <<0, 1>>
               /\ p.cropWidth = w /\ p.cropHeight = h
          /\ IMAGE_SIZES[j].crop =>
               /\ p.cropWidth = side /\ p.cropHeight = side
               /\ w > h => p.yCrop = <<0, 1>> /\ 2 * p.xCrop[1] = (w - h) * p.xCrop[2]
               /\ ~(w > h) => p.xCrop = <<0, 1>> /\ 2 * p.yCrop[1] = (h - w) * p.yCrop[2]
          /\ p.xCrop[1] + p.cropWidth * p.xCrop[2] <= w * p.xCrop[2]
          /\ p.yCrop[1] + p.cropHeight * p.yCrop[2] <= h * p.yCrop[2]
          /\ p.xCrop[1] >= 0 /\ p.yCrop[1] >= 0 /\ p.xCrop[2] > 0 /\ p.yCrop[2] > 0

C9_Witness ==
  /\ object.width = 3 /\ object.height = 2
  /\ Planned(2)
  /\ PlanOf(2).cropWidth = 2 /\ PlanOf(2).cropHeight = 2
  /\ PlanOf(2).xCrop = <<1, 2>> /\ PlanOf(2).yCrop = <<0, 1>>
  /\ Planned(1)
  /\ PlanOf(1).cropWidth = 3 /\ PlanOf(1).cropHeight = 2

\* C10: every completed invocation on the same source object leaves the
\* same objects in the store as the first one: the same destination keys,
\* each with the same crop rectangle, output dimensions, content type and
\* visibility, whatever the order of the callbacks in each.
C10_SameOutputsEachRun ==
  \A r \in 2..run :
    (r < run \/ Quiescent) => outputs[r] = outputs[1]

C10_Witness ==
  /\ run = 2
  /\ Quiescent
  /\ Cardinality(outputs[2]) = Len(IMAGE_SIZES)
  /\ outputs[2] = outputs[1]

Terminal == {"Succeeded", "Failed"}

\* C11: whenever the handler's callback has been called, every size job
\* is Succeeded or Failed and no getObject, size, toBuffer or putObject
\* call is outstanding.
C11_ReportedOnlyWhenAllTerminal ==
  reported # << >> => \A j \in Jobs : pc[j] \in Terminal

C11_Witness ==
  /\ reported # << >>
  /\ \A j \in Jobs : pc[j] \in Terminal
  /\ \E j \in Jobs : Issued(puts, j)

\* C12: a size job never ends without an outcome reported to async.each:
\* once a stage of it has failed the job is Failed with that error, never
\* left thrown, and the final callback of async.each has been given an
\* error.
C12_StageFailureReported ==
  \A j \in Jobs :
    /\ pc[j] \in InFlight \cup Terminal \cup {"Pending"}
    /\ pc[j] = "Failed" => local[j].err # NoErr /\ each.called /\ each.err.msg # NoErr

\* the moves of one size job, in the order the waterfall allows
JobSteps ==
  { << "Pending", "Fetching" >>, << "Pending", "Succeeded" >>,
    << "Pending", "Failed" >>,
    << "Fetching", "Sizing" >>, << "Fetching", "Failed" >>,
    << "Sizing", "Converting" >>, << "Sizing", "Thrown" >>,
    << "Converting", "Storing" >>, << "Converting", "Failed" >>,
    << "Storing", "Succeeded" >>, << "Storing", "Failed" >> }

\* C13: every step moves a size job forward along fetch, transform, store:
\* its getObject is issued once, when it starts; the transform starts only
\* from a successful getObject; its putObject is issued once, from a
\* successful toBuffer; it reports Success only from a successful
\* putObject; no step is ever taken again.
C13_StepOrder ==
  [][ LET got    == { r.job : r \in gets }
          gotNow == { r.job : r \in gets' }
          put    == { r.job : r \in puts }
          putNow == { r.job : r \in puts' }
      IN  /\ got \subseteq gotNow /\ put \subseteq putNow
          /\ \A j \in Jobs :
               pc'[j] # pc[j] =>
                 /\ << pc[j], pc'[j] >> \in JobSteps
                 /\ pc'[j] = "Sizing" => j \in got
                 /\ pc'[j] = "Storing" => j \in putNow \ put
                 /\ pc'[j] = "Fetching" => j \in gotNow \ got
                 /\ local'[j].data = "Success" <=> pc[j] = "Storing" /\ pc'[j] = "Succeeded"
          /\ \A j \in gotNow \ got : pc[j] = "Pending" /\ pc'[j] = "Fetching"
          /\ \A j \in putNow \ put : pc[j] = "Converting" /\ pc'[j] = "Storing"
          /\ \A j \in Jobs :
               pc'[j] = pc[j] => local'[j].data = local[j].data ]_vars

C13_Witness ==
  /\ pc[1] = "Succeeded" /\ local[1].data = "Success"
  /\ Issued(gets, 1) /\ Issued(puts, 1)
  /\ pc[2] = "Sizing" /\ Issued(gets, 2) /\ ~Issued(puts, 2)
  /\ pc[3] = "Storing"

\* the size jobs that fail in this step; the synchronous loop of the
\* handler fails them in the order of IMAGE_SIZES
NewlyFailed == { j \in Jobs : pc[j] # "Failed" /\ pc'[j] = "Failed" }

FirstNewlyFailed == CHOOSE j \in NewlyFailed : \A k \in NewlyFailed : j <= k

\* C14: the final callback of async.each runs at most once: the first job
\* to fail, in the order the failures happen, gives it its error, that
\* error is never replaced by a later one, a run that got an error never
\* gets the success call, and the handler's callback is called at most
\* once.
C14_FirstErrorOnly ==
  [][ /\ (NewlyFailed # {} /\ ~each.called)
           => /\ each'.called
              /\ each'.err = [job |-> FirstNewlyFailed,
                              msg |-> local'[FirstNewlyFailed].err]
      /\ each.called => each'.called /\ each'.err = each.err
                          /\ reported' = reported
      /\ Len(reported') <= 1 ]_vars

C14_Witness ==
  /\ pc[2] = "Failed" /\ local[2].err = "StoreFailure"
  /\ pc[5] = "Failed" /\ local[5].err = "FetchFailure"
  /\ each.called
  /\ each.err = [job |-> 5, msg |-> "FetchFailure"]

\* C15: the success call is never among the calls made to the handler's
\* callback when some size job has failed or thrown; it is there only
\* when all six jobs are Succeeded.
C15_NoSuccessAfterFailure ==
  /\ (\E j \in Jobs : pc[j] \in {"Failed", "Thrown"})
       => \A i \in 1..Len(reported) : reported[i] # SuccessCall
  /\ (\E i \in 1..Len(reported) : reported[i] = SuccessCall)
       => \A j \in Jobs : pc[j] = "Succeeded"

C15_Witness ==
  /\ Quiescent
  /\ pc[4] = "Failed" /\ local[4].err = "EncodeError"
  /\ \A k \in Jobs \ {4} : pc[k] = "Succeeded"
  /\ reported = << >>

\* C16: the destination keys of the six size jobs are pairwise distinct,
\* and no two putObject requests of different jobs name the same bucket
\* and key.
C16_DistinctDestinations ==
  /\ Started =>
       \A j, k \in Jobs : j # k => local[j].dstKey # local[k].dstKey
  /\ \A p, q \in puts :
       p.job # q.job => ~(p.Bucket = q.Bucket /\ p.Key = q.Key)

C16_Witness ==
  /\ pc[5] = "Storing" /\ pc[6] = "Storing"
  /\ \E p, q \in puts :
       /\ p.job = 5 /\ q.job = 6
       /\ p.Key = << "thumb", "/", "abc", "/", "x", ".", "jpg" >>
       /\ q.Key = << "thumb_square", "/", "abc", "/", "x", ".", "jpg" >>

\* the text of a bucket name up to its first "/"
UpToSlash(t) ==
  IF NoSlash(t) THEN t
  ELSE SubSeq(t, 1, (CHOOSE i \in 1..Len(t) :
                       t[i] = "/" /\ NoSlash(SubSeq(t, 1, i - 1))) - 1)

C18_IntegerPlan ==
  \A j \in Jobs :
    Planned(j) =>
      LET p == PlanOf(j)
          w == object.width
          h == object.height
      IN  /\ p.xCrop[2] = 1 /\ p.yCrop[2] = 1
          /\ p.width[2] = 1 /\ p.height[2] = 1
          /\ IMAGE_SIZES[j].crop =>
               /\ w > h => p.xCrop = << (w - h) \div 2, 1 >>
               /\ ~(w > h) => p.yCrop = << (h - w) \div 2, 1 >>

====
